---- MODULE Spec2Model ----
(***************************************************************************)
(* CineLens (src/app.py): a Flask relay with two routes.  POST             *)
(* /api/extract-movies validates the JSON body, calls the vision-model API *)
(* once, splits the returned text into titles and looks each title up in   *)
(* the movie database, one call after the other.                           *)
(*                                                                         *)
(* A Python str is modelled as a sequence of symbols.  A symbol is a       *)
(* single character ("A", " ", "\n", ...) or a literal that the code only  *)
(* ever compares or copies as a whole ("N/A", "No movie titles detected"). *)
(* split, strip, join and concatenation work symbol by symbol.             *)
(***************************************************************************)
EXTENDS Integers, Sequences, FiniteSets, TLC

VARIABLES
    env,                  \* the installed library versions (fixed per run)
    pc,                   \* position of the request handler
    request,              \* the inbound HTTP request being handled
    vision_reply,         \* reply of requests.post in flight to the handler
    omdb_reply,           \* reply of requests.get in flight to the handler
    movie_titles,         \* extract_movies: movie_titles
    idx,                  \* extract_movies: position of the for loop (1-based)
    movies_with_details,  \* extract_movies: movies_with_details
    extraction,           \* how extract_movie_titles_from_image ended
    lookups,              \* what each get_movie_details call returned or raised
    response,             \* the HTTP response sent for the request
    trace,                \* outbound calls and their returns, in order
    fetch_title,          \* get_movie_details in isolation: argument
    fetch_reply,          \* get_movie_details in isolation: the HTTP outcome
    fetch_result,         \* get_movie_details in isolation: what it returned
    fetch_pc

vars == << env, pc, request, vision_reply, omdb_reply, movie_titles, idx,
           movies_with_details, extraction, lookups, response, trace,
           fetch_title, fetch_reply, fetch_result, fetch_pc >>

orchVars == << pc, request, vision_reply, omdb_reply, movie_titles, idx,
               movies_with_details, extraction, lookups, response, trace >>

fetchVars == << fetch_title, fetch_reply, fetch_result, fetch_pc >>

(***************************************************************************)
(* Bounds                                                                  *)
(***************************************************************************)
\* longest content array the vision model returns
MaxBlocks == 3

(***************************************************************************)
(* Python strings                                                          *)
(***************************************************************************)
Str(s) == << s >>

EmptyStr == << >>

\* the characters str.strip() removes
Whitespace == { " ", "\t", "\n", "\r", "\f" }

\* s.split("\n"): scan left to right, cut at every "\n"
RECURSIVE PySplitFrom(_, _, _)
PySplitFrom(rest, cur, acc) ==
    IF rest = << >> THEN Append(acc, cur)
    ELSE IF Head(rest) = "\n"
         THEN PySplitFrom(Tail(rest), << >>, Append(acc, cur))
         ELSE PySplitFrom(Tail(rest), Append(cur, Head(rest)), acc)

PySplitNewline(s) == PySplitFrom(s, << >>, << >>)

RECURSIVE PyLStrip(_)
PyLStrip(s) ==
    IF s # << >> /\ Head(s) \in Whitespace THEN PyLStrip(Tail(s)) ELSE s

RECURSIVE PyRStrip(_)
PyRStrip(s) ==
    IF s # << >> /\ s[Len(s)] \in Whitespace
    THEN PyRStrip(SubSeq(s, 1, Len(s) - 1))
    ELSE s

\* s.strip()
PyStrip(s) == PyRStrip(PyLStrip(s))

\* "\n".join(parts)
RECURSIVE PyJoinNewline(_)
PyJoinNewline(parts) ==
    IF parts = << >> THEN << >>
    ELSE IF Len(parts) = 1 THEN parts[1]
    ELSE parts[1] \o << "\n" >> \o PyJoinNewline(Tail(parts))

\* needle in haystack, for two strs
PySubstring(needle, haystack) ==
    \E i \in 1..(Len(haystack) - Len(needle) + 1) :
        SubSeq(haystack, i, i + Len(needle) - 1) = needle

(***************************************************************************)
(* Literals of app.py                                                      *)
(***************************************************************************)
NoTitlesSentinel == Str("No movie titles detected")
NA == Str("N/A")
ErrorRating == Str("Error")
NotFoundPlot == Str("Movie information not found")
NoImageError == Str("No image provided")
Healthy == Str("healthy")
ImageKey == Str("image")

(***************************************************************************)
(* The requests library, as app.py uses it                                 *)
(***************************************************************************)
\* Response.raise_for_status(): HTTPError for 4xx and 5xx, nothing otherwise
RaisesForStatus(reply) == reply.status >= 400 /\ reply.status < 600

\* str(e) of the RequestException the call raises
RequestErrorText(reply) ==
    IF reply.net = "error" THEN Str("Connection refused")
    ELSE IF reply.status < 500 THEN Str("Client Error")
    ELSE Str("Server Error")

JsonErrorText == Str("Expecting value: line 1 column 1 (char 0)")

\* what a call returns or raises: exc = "none" means it returned
Returned(v) == [ exc |-> "none", msg |-> EmptyStr, value |-> v ]
Raised(kind, msg) == [ exc |-> kind, msg |-> msg, value |-> << >> ]

(***************************************************************************)
(* extract_movie_titles_from_image                                         *)
(***************************************************************************)
VisionErrorPrefix == Str("Error calling Claude API: ")

\* lines 125-128: concatenate the text of the "text" blocks
RECURSIVE ConcatTextBlocks(_, _)
ConcatTextBlocks(blocks, movies_text) ==
    IF blocks = << >> THEN Returned(movies_text)
    ELSE LET content_item == Head(blocks) IN
         IF content_item.shape # "dict"
         THEN Raised("AttributeError", Str("'str' object has no attribute 'get'"))
         ELSE IF content_item.type # "text"
         THEN ConcatTextBlocks(Tail(blocks), movies_text)
         ELSE IF content_item.text = "null"
         THEN Raised("TypeError", Str("can only concatenate str (not \"NoneType\") to str"))
         ELSE IF content_item.text = "absent"
         THEN ConcatTextBlocks(Tail(blocks), movies_text \o EmptyStr)
         ELSE ConcatTextBlocks(Tail(blocks), movies_text \o content_item.s)

KeepTitle(line) == PyStrip(line) # EmptyStr /\ PyStrip(line) # NoTitlesSentinel

\* lines 131-134: the list comprehension
RECURSIVE StripEach(_)
StripEach(lines) ==
    IF lines = << >> THEN << >>
    ELSE << PyStrip(Head(lines)) >> \o StripEach(Tail(lines))

\* the comprehension keeping each line as it was split, untrimmed
TitlesOfTextUntrimmed(movies_text) ==
    SelectSeq(PySplitNewline(movies_text), KeepTitle)

TitlesOfText(movies_text) ==
    StripEach(SelectSeq(PySplitNewline(movies_text), KeepTitle))

\* the except branch returning no titles where the code re-raises
ExtractReturnsEmptyOnError(reply, e) ==
    IF reply.net = "error" \/ RaisesForStatus(reply)
    THEN Returned(<< >>)
    ELSE IF reply.body = "notjson"
    THEN IF e.json_error_is_value_error
         THEN Raised("ValueError", JsonErrorText)
         ELSE Returned(<< >>)
    ELSE IF reply.body # "object"
    THEN Raised("AttributeError", Str("'list' object has no attribute 'get'"))
    ELSE IF reply.content = "null"
    THEN Raised("TypeError", Str("'NoneType' object is not iterable"))
    ELSE LET text == IF reply.content = "absent"
                     THEN Returned(EmptyStr)
                     ELSE ConcatTextBlocks(reply.blocks, EmptyStr)
         IN IF text.exc # "none" THEN text
            ELSE Returned(TitlesOfText(text.value))

\* lines 117-143, given the reply requests.post produced

ExtractMovieTitlesFromImage(reply, e) ==
    IF reply.net = "error" \/ RaisesForStatus(reply)
    THEN Raised("Exception", VisionErrorPrefix \o RequestErrorText(reply))
    ELSE IF reply.body = "notjson"
    THEN IF e.json_error_is_value_error
         THEN Raised("ValueError", JsonErrorText)
         ELSE Raised("Exception", VisionErrorPrefix \o JsonErrorText)
    ELSE IF reply.body # "object"
    THEN Raised("AttributeError", Str("'list' object has no attribute 'get'"))
    ELSE IF reply.content = "null"
    THEN Raised("TypeError", Str("'NoneType' object is not iterable"))
    ELSE LET text == IF reply.content = "absent"
                     THEN Returned(EmptyStr)
                     ELSE ConcatTextBlocks(reply.blocks, EmptyStr)
         IN IF text.exc # "none" THEN text
            ELSE Returned(TitlesOfText(text.value))

(***************************************************************************)
(* get_movie_details                                                       *)
(***************************************************************************)
OmdbKeys == { "Response", "Title", "imdbRating", "Poster", "Year", "Plot" }

FetchErrorPrefix == Str("Error fetching movie details: ")

NoRecord ==
    [ title |-> EmptyStr, rating |-> EmptyStr, poster |-> EmptyStr,
      year |-> EmptyStr, plot |-> EmptyStr ]

FetchReturned(rec) == [ exc |-> "none", msg |-> EmptyStr, value |-> rec ]
FetchRaised(kind, msg) == [ exc |-> kind, msg |-> msg, value |-> NoRecord ]

\* dict.get(key, default) on the decoded payload
DictGet(movie_data, key, default) ==
    IF key \in movie_data.keys THEN movie_data.val[key] ELSE default

\* movie_data.get("Response") == "True"
ResponseIsTrue(movie_data) ==
    "Response" \in movie_data.keys /\ movie_data.val["Response"] = Str("True")

\* the record with .get(key) calls that name no default
FoundRecordNoDefaults(title, movie_data) ==
    [ title  |-> DictGet(movie_data, "Title", title),
      rating |-> DictGet(movie_data, "imdbRating", EmptyStr),
      poster |-> DictGet(movie_data, "Poster", EmptyStr),
      year   |-> DictGet(movie_data, "Year", EmptyStr),
      plot   |-> DictGet(movie_data, "Plot", EmptyStr) ]

\* lines 163-169
FoundRecord(title, movie_data) ==
    [ title  |-> DictGet(movie_data, "Title", title),
      rating |-> DictGet(movie_data, "imdbRating", NA),
      poster |-> DictGet(movie_data, "Poster", NA),
      year   |-> DictGet(movie_data, "Year", NA),
      plot   |-> DictGet(movie_data, "Plot", NA) ]

\* the not-found record with the title replaced by the sentinel too
NotFoundRecordNoTitle(title) ==
    [ title |-> NA, rating |-> NA, poster |-> NA, year |-> NA,
      plot |-> NotFoundPlot ]

\* lines 172-178
NotFoundRecord(title) ==
    [ title |-> title, rating |-> NA, poster |-> NA, year |-> NA,
      plot |-> NotFoundPlot ]

\* the error record with the rating left at "N/A"
ErrorRecordRatingNA(title, description) ==
    [ title |-> title, rating |-> NA, poster |-> NA, year |-> NA,
      plot |-> FetchErrorPrefix \o description ]

\* lines 182-188
ErrorRecord(title, description) ==
    [ title |-> title, rating |-> ErrorRating, poster |-> NA, year |-> NA,
      plot |-> FetchErrorPrefix \o description ]

\* lines 150-188, given the reply requests.get produced
GetMovieDetails(title, reply, e) ==
    IF reply.net = "error" \/ RaisesForStatus(reply)
    THEN FetchReturned(ErrorRecord(title, RequestErrorText(reply)))
    ELSE IF reply.body = "notjson"
    THEN IF e.json_error_is_value_error
         THEN FetchRaised("ValueError", JsonErrorText)
         ELSE FetchReturned(ErrorRecord(title, JsonErrorText))
    ELSE IF reply.body # "object"
    THEN FetchRaised("AttributeError", Str("'list' object has no attribute 'get'"))
    ELSE IF ResponseIsTrue(reply)
    THEN FetchReturned(FoundRecord(title, reply))
    ELSE FetchReturned(NotFoundRecord(title))

(***************************************************************************)
(* Flask: routing and request.json                                         *)
(***************************************************************************)
HealthPath == "/health"
ExtractPath == "/api/extract-movies"

\* the health route registered with methods=['POST']
RouteHealthPostOnly(method, path) ==
    IF path = HealthPath
    THEN IF method = "POST" THEN "health_check" ELSE "405"
    ELSE IF path = ExtractPath
    THEN IF method = "POST" THEN "extract_movies" ELSE "405"
    ELSE "404"

\* the view a request is routed to, or the status Flask answers itself
Route(method, path) ==
    IF path = HealthPath
    THEN IF method = "GET" THEN "health_check" ELSE "405"
    ELSE IF path = ExtractPath
    THEN IF method = "POST" THEN "extract_movies" ELSE "405"
    ELSE "404"

\* request.json: the decoded body, None, or an HTTP error Flask raises
RequestJson(body, e) ==
    IF body.t = "malformed" THEN "BadRequest"
    ELSE IF body.t = "nonjson"
    THEN IF e.json_none_for_other_mimetype THEN "None" ELSE "UnsupportedMediaType"
    ELSE "value"

\* bool(request.json)
PyTruthy(v) ==
    CASE v.t \in { "null", "nonjson" } -> FALSE
      [] v.t \in { "bool", "number" }  -> v.n # 0
      [] v.t = "string"                -> v.s # EmptyStr
      [] v.t = "array"                 -> v.a # << >>
      [] v.t = "object"                -> v.keys # {}

\* 'image' in request.json: "TypeError" where the operand is no container
PyContainsImage(v) ==
    CASE v.t = "string" -> IF PySubstring(ImageKey, v.s) THEN "True" ELSE "False"
      [] v.t = "array"  -> IF \E i \in 1..Len(v.a) : v.a[i] = ImageKey
                           THEN "True" ELSE "False"
      [] v.t = "object" -> IF "image" \in v.keys THEN "True" ELSE "False"
      [] OTHER          -> "TypeError"

\* str(e) of request.json['image'] where request.json is no dict
GetItemErrorText(v) ==
    IF v.t = "string" THEN Str("string indices must be integers")
    ELSE Str("list indices must be integers or slices, not str")

(***************************************************************************)
(* HTTP responses                                                          *)
(***************************************************************************)
NoResponse ==
    [ status |-> 0, by |-> "none", keys |-> {}, error |-> EmptyStr,
      movies |-> << >>, health |-> EmptyStr ]

\* a response Flask builds itself (an HTML error page)
FrameworkResponse(code) ==
    [ status |-> code, by |-> "flask", keys |-> {}, error |-> EmptyStr,
      movies |-> << >>, health |-> EmptyStr ]

\* jsonify({"error": message}), code
ErrorResponse(code, message) ==
    [ status |-> code, by |-> "app", keys |-> { "error" }, error |-> message,
      movies |-> << >>, health |-> EmptyStr ]

\* jsonify({"movies": movies}), 200
MoviesResponse(movies) ==
    [ status |-> 200, by |-> "app", keys |-> { "movies" }, error |-> EmptyStr,
      movies |-> movies, health |-> EmptyStr ]

\* lines 23-26
HealthCheck ==
    [ status |-> 200, by |-> "app", keys |-> { "status" }, error |-> EmptyStr,
      movies |-> << >>, health |-> Healthy ]

(***************************************************************************)
(* Inputs                                                                  *)
(***************************************************************************)
\* requests >= 2.27 raises a RequestException subclass from Response.json();
\* older releases raise a plain ValueError.  Flask >= 2.1 answers 415 to a
\* body whose mimetype is not JSON; older releases make request.json None.
\* app.py pins neither library.
Envs ==
    [ json_error_is_value_error : BOOLEAN,
      json_none_for_other_mimetype : BOOLEAN ]

Body(t, n, s, a, keys, image) ==
    [ t |-> t, n |-> n, s |-> s, a |-> a, keys |-> keys, image |-> image ]

Images == { Str("aGVsbG8="), EmptyStr }

Bodies ==
    { Body(t, 0, EmptyStr, << >>, {}, EmptyStr) : t \in { "nonjson", "malformed", "null" } }
    \cup { Body(t, n, EmptyStr, << >>, {}, EmptyStr) : t \in { "bool" }, n \in { 0, 1 } }
    \cup { Body("number", n, EmptyStr, << >>, {}, EmptyStr) : n \in { 0, 5 } }
    \cup { Body("string", 0, s, << >>, {}, EmptyStr) : s \in { EmptyStr, ImageKey, Str("A") } }
    \cup { Body("array", 0, EmptyStr, a, {}, EmptyStr) :
             a \in { << >>, << ImageKey >>, << Str("A") >> } }
    \cup { Body("object", 0, EmptyStr, << >>, keys, EmptyStr) : keys \in { {}, { "other" } } }
    \cup { Body("object", 0, EmptyStr, << >>, keys, image) :
             keys \in { { "image" }, { "image", "other" } }, image \in Images }

Requests ==
    [ method : { "GET", "POST" },
      path : { HealthPath, ExtractPath, "/" },
      body : Bodies ]

NoRequest ==
    [ method |-> "none", path |-> "none",
      body |-> Body("nonjson", 0, EmptyStr, << >>, {}, EmptyStr) ]

\* the vision model's content blocks
Block(shape, type, text, s) ==
    [ shape |-> shape, type |-> type, text |-> text, s |-> s ]

BlockTexts ==
    { Str("A"), Str("B"), Str(" "), Str("\n"), Str("\r"), NoTitlesSentinel }

Blocks ==
    { Block("dict", "text", "str", s) : s \in BlockTexts }
    \cup { Block("dict", "tool_use", "str", Str("A")),
           Block("dict", "absent", "str", Str("A")),
           Block("dict", "text", "absent", EmptyStr),
           Block("dict", "text", "null", EmptyStr),
           Block("nondict", "absent", "absent", EmptyStr) }

BlockLists == UNION { [ 1..n -> Blocks ] : n \in 0..MaxBlocks }

VisionReply(net, status, body, content, blocks) ==
    [ net |-> net, status |-> status, body |-> body, content |-> content,
      blocks |-> blocks ]

NoVisionReply == VisionReply("none", 0, "none", "none", << >>)

VisionReplies ==
    { VisionReply("error", 0, "none", "none", << >>) }
    \cup { VisionReply("ok", st, "none", "none", << >>) : st \in { 401, 500 } }
    \cup { VisionReply("ok", st, b, "none", << >>) :
             st \in { 200, 304 }, b \in { "notjson", "nonobject" } }
    \cup { VisionReply("ok", st, "object", c, << >>) :
             st \in { 200, 304 }, c \in { "absent", "null" } }
    \cup { VisionReply("ok", st, "object", "list", bl) :
             st \in { 200, 304 }, bl \in BlockLists }

\* the movie database's replies
OmdbValues ==
    [ Response |-> Str("True"), Title |-> Str("Inception"),
      imdbRating |-> Str("8.8"), Poster |-> Str("http://img/inception.jpg"),
      Year |-> Str("2010"), Plot |-> Str("A thief who steals secrets.") ]

Payload(keys, resp) ==
    [ k \in OmdbKeys |->
        IF k \notin keys THEN EmptyStr
        ELSE IF k = "Response" THEN resp
        ELSE OmdbValues[k] ]

OmdbReply(net, status, body, keys, resp) ==
    [ net |-> net, status |-> status, body |-> body, keys |-> keys,
      val |-> Payload(keys, resp) ]

NoOmdbReply == OmdbReply("none", 0, "none", {}, EmptyStr)

OmdbFailures ==
    { OmdbReply("error", 0, "none", {}, EmptyStr) }
    \cup { OmdbReply("ok", st, "none", {}, EmptyStr) : st \in { 401, 500 } }

OmdbRepliesOver(statuses, keySets, responses) ==
    OmdbFailures
    \cup { OmdbReply("ok", st, b, {}, EmptyStr) :
             st \in statuses, b \in { "notjson", "nonobject" } }
    \cup { OmdbReply("ok", st, "object", keys, EmptyStr) :
             st \in statuses, keys \in { ks \in keySets : "Response" \notin ks } }
    \cup { OmdbReply("ok", st, "object", keys, r) :
             st \in statuses, keys \in { ks \in keySets : "Response" \in ks },
             r \in responses }

\* every shape of payload, for get_movie_details on its own
OmdbRepliesAll ==
    OmdbRepliesOver({ 200, 304 }, SUBSET OmdbKeys,
                    { Str("True"), Str("False"), Str("true") })

\* the replies a request's lookups draw from
OmdbReplies ==
    OmdbRepliesOver({ 200 },
                    { OmdbKeys, OmdbKeys \ { "Title" }, { "Response" }, {} },
                    { Str("True"), Str("False") })

FetchTitles == { Str("A"), << "A", " ", "B" >> }

(***************************************************************************)
(* The request handler                                                     *)
(***************************************************************************)
Call(api, pos, title) == [ ev |-> "call", api |-> api, pos |-> pos, title |-> title ]
Return(api, pos, title) == [ ev |-> "return", api |-> api, pos |-> pos, title |-> title ]

\* if movie_details: a dict is true when it has a key
DictTruthy(movie_details) == DOMAIN movie_details # {}

OrchInit ==
    /\ pc = "idle"
    /\ request = NoRequest
    /\ vision_reply = NoVisionReply
    /\ omdb_reply = NoOmdbReply
    /\ movie_titles = << >>
    /\ idx = 0
    /\ movies_with_details = << >>
    /\ extraction = "none"
    /\ lookups = << >>
    /\ response = NoResponse
    /\ trace = << >>

FetchIdle ==
    /\ fetch_pc = "idle"
    /\ fetch_title = EmptyStr
    /\ fetch_reply = NoOmdbReply
    /\ fetch_result = FetchRaised("none", EmptyStr)

Init ==
    /\ env \in Envs
    /\ OrchInit
    /\ FetchIdle

\* the server accepts a request
ReceiveRequest ==
    /\ pc = "idle"
    /\ \E req \in Requests : request' = req
    /\ pc' = "received"
    /\ UNCHANGED << env, vision_reply, omdb_reply, movie_titles, idx,
                    movies_with_details, extraction, lookups, response, trace,
                    fetchVars >>

\* the response is sent and the view's locals go out of scope
Finish ==
    /\ pc = "done"
    /\ pc' = "idle"
    /\ request' = NoRequest
    /\ vision_reply' = NoVisionReply
    /\ omdb_reply' = NoOmdbReply
    /\ movie_titles' = << >>
    /\ idx' = 0
    /\ movies_with_details' = << >>
    /\ extraction' = "none"
    /\ lookups' = << >>
    /\ response' = NoResponse
    /\ trace' = << >>
    /\ UNCHANGED << env, fetchVars >>

Respond(r) ==
    /\ response' = r
    /\ pc' = "done"

\* lines 52-60 of extract_movies, up to the call of the vision model:
\* "respond" with a response, or "call" with the image to send
Validate(body, e) ==
    LET json == RequestJson(body, e) IN
    IF json = "BadRequest"
    THEN [ do |-> "respond", response |-> FrameworkResponse(400), image |-> EmptyStr ]
    ELSE IF json = "UnsupportedMediaType"
    THEN [ do |-> "respond", response |-> FrameworkResponse(415), image |-> EmptyStr ]
    ELSE IF ~ PyTruthy(body)
    THEN [ do |-> "respond", response |-> ErrorResponse(400, NoImageError),
           image |-> EmptyStr ]
    ELSE IF PyContainsImage(body) = "TypeError"
    THEN [ do |-> "respond", response |-> FrameworkResponse(500), image |-> EmptyStr ]
    ELSE IF PyContainsImage(body) = "False"
    THEN [ do |-> "respond", response |-> ErrorResponse(400, NoImageError),
           image |-> EmptyStr ]
    ELSE IF body.t # "object"
    THEN [ do |-> "respond", response |-> ErrorResponse(500, GetItemErrorText(body)),
           image |-> EmptyStr ]
    ELSE [ do |-> "call", response |-> NoResponse, image |-> body.image ]

\* Flask routes the request; the view runs up to its first outbound call
Dispatch ==
    /\ pc = "received"
    /\ LET view == Route(request.method, request.path) IN
       \/ /\ view = "404"
          /\ Respond(FrameworkResponse(404))
          /\ UNCHANGED trace
       \/ /\ view = "405"
          /\ Respond(FrameworkResponse(405))
          /\ UNCHANGED trace
       \/ /\ view = "health_check"
          /\ Respond(HealthCheck)
          /\ UNCHANGED trace
       \/ /\ view = "extract_movies"
          /\ Validate(request.body, env).do = "respond"
          /\ Respond(Validate(request.body, env).response)
          /\ UNCHANGED trace
       \/ /\ view = "extract_movies"
          /\ Validate(request.body, env).do = "call"
          /\ trace' = Append(trace, Call("vision", 0, Validate(request.body, env).image))
          /\ pc' = "vision_wait"
          /\ UNCHANGED response
    /\ UNCHANGED << env, request, vision_reply, omdb_reply, movie_titles, idx,
                    movies_with_details, extraction, lookups, fetchVars >>

\* requests.post returns or raises (line 118)
VisionReplyArrives ==
    /\ pc = "vision_wait"
    /\ \E reply \in VisionReplies : vision_reply' = reply
    /\ pc' = "vision_got"
    /\ trace' = Append(trace, Return("vision", 0, trace[1].title))
    /\ UNCHANGED << env, request, omdb_reply, movie_titles, idx,
                    movies_with_details, extraction, lookups, response, fetchVars >>

\* lines 119-143 and 60-68: the titles, then the first lookup is issued
HandleVisionReply ==
    /\ pc = "vision_got"
    /\ LET got == ExtractMovieTitlesFromImage(vision_reply, env) IN
       \/ /\ got.exc # "none"
          /\ extraction' = "raised"
          /\ Respond(ErrorResponse(500, got.msg))
          /\ UNCHANGED << movie_titles, idx, trace >>
       \/ /\ got.exc = "none"
          /\ got.value = << >>
          /\ extraction' = "ok"
          /\ movie_titles' = got.value
          /\ Respond(MoviesResponse(<< >>))
          /\ UNCHANGED << idx, trace >>
       \/ /\ got.exc = "none"
          /\ got.value # << >>
          /\ extraction' = "ok"
          /\ movie_titles' = got.value
          /\ idx' = 1
          /\ trace' = Append(trace, Call("omdb", 1, got.value[1]))
          /\ pc' = "omdb_wait"
          /\ UNCHANGED response
    /\ vision_reply' = NoVisionReply
    /\ UNCHANGED << env, request, omdb_reply, movies_with_details, lookups,
                    fetchVars >>

\* requests.get returns or raises (lines 151-158)
OmdbReplyArrives ==
    /\ pc = "omdb_wait"
    /\ \E reply \in OmdbReplies : omdb_reply' = reply
    /\ pc' = "omdb_got"
    /\ trace' = Append(trace, Return("omdb", idx, movie_titles[idx]))
    /\ UNCHANGED << env, request, vision_reply, movie_titles, idx,
                    movies_with_details, extraction, lookups, response, fetchVars >>

\* lines 159-188 and 69-76: the record, then the next lookup or the response
HandleOmdbReply ==
    /\ pc = "omdb_got"
    /\ LET movie_details == GetMovieDetails(movie_titles[idx], omdb_reply, env)
           collected == IF DictTruthy(movie_details.value)
                        THEN Append(movies_with_details, movie_details.value)
                        ELSE movies_with_details
       IN
       /\ lookups' = Append(lookups, movie_details)
       /\ \/ /\ movie_details.exc # "none"
             /\ Respond(ErrorResponse(500, movie_details.msg))
             /\ UNCHANGED << movies_with_details, idx, trace >>
          \/ /\ movie_details.exc = "none"
             /\ idx < Len(movie_titles)
             /\ movies_with_details' = collected
             /\ idx' = idx + 1
             /\ trace' = Append(trace, Call("omdb", idx + 1, movie_titles[idx + 1]))
             /\ pc' = "omdb_wait"
             /\ UNCHANGED response
          \/ /\ movie_details.exc = "none"
             /\ idx = Len(movie_titles)
             /\ movies_with_details' = collected
             /\ Respond(MoviesResponse(collected))
             /\ UNCHANGED << idx, trace >>
    /\ omdb_reply' = NoOmdbReply
    /\ UNCHANGED << env, request, vision_reply, movie_titles, extraction,
                    fetchVars >>

Next ==
    \/ ReceiveRequest
    \/ Dispatch
    \/ VisionReplyArrives
    \/ HandleVisionReply
    \/ OmdbReplyArrives
    \/ HandleOmdbReply
    \/ Finish

Spec == Init /\ [][Next]_vars

(***************************************************************************)
(* get_movie_details on its own: one title, one reply, one result          *)
(***************************************************************************)
InitFetch ==
    /\ env \in Envs
    /\ OrchInit
    /\ fetch_pc = "ready"
    /\ fetch_title \in FetchTitles
    /\ fetch_reply \in OmdbRepliesAll
    /\ fetch_result = FetchRaised("none", EmptyStr)

FetchCall ==
    /\ fetch_pc = "ready"
    /\ fetch_result' = GetMovieDetails(fetch_title, fetch_reply, env)
    /\ fetch_pc' = "returned"
    /\ UNCHANGED << env, orchVars, fetch_title, fetch_reply >>

FetchAgain ==
    /\ fetch_pc = "returned"
    /\ fetch_title' \in FetchTitles
    /\ fetch_reply' \in OmdbRepliesAll
    /\ fetch_result' = FetchRaised("none", EmptyStr)
    /\ fetch_pc' = "ready"
    /\ UNCHANGED << env, orchVars >>

NextFetch == FetchCall \/ FetchAgain

SpecFetch == InitFetch /\ [][NextFetch]_vars

(***************************************************************************)
(* Vocabulary of the properties                                            *)
(***************************************************************************)
IsExtractRequest == request.method = "POST" /\ request.path = ExtractPath

\* the body is a JSON object with an "image" field
HasImageField(body) == body.t = "object" /\ "image" \in body.keys

OmdbCalls == { i \in 1..Len(trace) : trace[i].ev = "call" /\ trace[i].api = "omdb" }

VisionCalls == { i \in 1..Len(trace) : trace[i].ev = "call" /\ trace[i].api = "vision" }

\* reading the vision model's reply fails: no JSON, not an object, a content
\* that is no list, an item that is no object, or a text block whose text is null
VisionReadFails(reply) ==
    \/ reply.body # "object"
    \/ reply.content = "null"
    \/ /\ reply.content = "list"
       /\ \E i \in 1..Len(reply.blocks) :
            \/ reply.blocks[i].shape # "dict"
            \/ reply.blocks[i].type = "text" /\ reply.blocks[i].text = "null"

\* the request was aborted with a 500 {"error": message} and no lookup
AbortedWithError ==
    /\ pc = "done"
    /\ response.status = 500
    /\ response.keys = { "error" }
    /\ response.error # EmptyStr
    /\ response.movies = << >>
    /\ OmdbCalls = {}

\* the text of a readable reply: its text blocks, concatenated
TextOfReply(reply) ==
    IF reply.content = "absent" THEN EmptyStr
    ELSE ConcatTextBlocks(reply.blocks, EmptyStr).value

\* the k-th line of a text, by the positions of its line breaks
LineBreaks(text) == { i \in 1..Len(text) : text[i] = "\n" }

NthLineBreak(text, k) ==
    CHOOSE i \in LineBreaks(text) :
        Cardinality({ j \in LineBreaks(text) : j < i }) = k - 1

LineOf(text, k) ==
    LET first == IF k = 1 THEN 1 ELSE NthLineBreak(text, k - 1) + 1
        last  == IF k = Cardinality(LineBreaks(text)) + 1
                 THEN Len(text)
                 ELSE NthLineBreak(text, k) - 1
    IN SubSeq(text, first, last)

\* a line without its leading and trailing whitespace
Trimmed(line) ==
    LET solid == { i \in 1..Len(line) : line[i] \notin Whitespace } IN
    IF solid = {} THEN << >>
    ELSE SubSeq(line,
                CHOOSE i \in solid : \A j \in solid : i <= j,
                CHOOSE i \in solid : \A j \in solid : j <= i)

IsTitleLine(line) == line # << >> /\ line # << "No movie titles detected" >>

ExpectedTitles(text) ==
    SelectSeq([ k \in 1..(Cardinality(LineBreaks(text)) + 1) |->
                  Trimmed(LineOf(text, k)) ],
              IsTitleLine)

\* the movie database answered with a JSON object and no HTTP error
OmdbAnswered(reply) ==
    /\ reply.net = "ok"
    /\ reply.status < 400
    /\ reply.body = "object"

OmdbFound(reply) ==
    /\ OmdbAnswered(reply)
    /\ "Response" \in reply.keys
    /\ reply.val["Response"] = << "True" >>

OrNA(reply, key) == IF key \in reply.keys THEN reply.val[key] ELSE << "N/A" >>

(***************************************************************************)
(* Properties                                                              *)
(***************************************************************************)

\* C1: a POST /api/extract-movies whose body is not valid JSON, or is JSON
\* without an "image" field (an empty object, or a JSON value that is no
\* object), is answered 400 with exactly {"error": "No image provided"}.
C1_MissingImageIs400 ==
    (pc = "done" /\ IsExtractRequest /\ ~ HasImageField(request.body))
        => /\ response.status = 400
           /\ response.by = "app"
           /\ response.keys = { "error" }
           /\ response.error = << "No image provided" >>

\* C2: get_movie_details never raises: for every title and every outcome of
\* the movie-database call it returns a record with the five fields title,
\* rating, poster, year and plot.
C2_FetcherNeverRaises ==
    fetch_pc = "returned"
        => /\ fetch_result.exc = "none"
           /\ DOMAIN fetch_result.value = { "title", "rating", "poster", "year", "plot" }

\* C3: when the extractor succeeds with titles T, the request is answered 200
\* with len(T) movies, movies[i] being the record the lookup of T[i] produced;
\* no lookup removes, reorders or aborts the others or yields a 500.
C3_OneRecordPerTitle ==
    (pc = "done" /\ extraction = "ok")
        => /\ response.status = 200
           /\ response.keys = { "movies" }
           /\ Len(response.movies) = Len(movie_titles)
           /\ Len(lookups) = Len(movie_titles)
           /\ \A i \in 1..Len(movie_titles) :
                /\ lookups[i].exc = "none"
                /\ response.movies[i] = lookups[i].value

\* C4 as written: if the vision-model call fails in any way (network error,
\* non-success status, failure while reading the reply) the request ends 500
\* with {"error": message}, no lookup is issued and no movies are returned.
C4_AnyNon2xxAborts ==
    [][ ( /\ pc = "vision_got"
          /\ \/ vision_reply.net = "error"
             \/ vision_reply.status < 200
             \/ vision_reply.status > 299
             \/ VisionReadFails(vision_reply) )
        => AbortedWithError' ]_vars

\* C4 amended: the same, the failing statuses being 4xx and 5xx, the ones
\* raise_for_status rejects.
C4_VisionFailureAborts ==
    [][ ( /\ pc = "vision_got"
          /\ \/ vision_reply.net = "error"
             \/ vision_reply.status >= 400
             \/ VisionReadFails(vision_reply) )
        => AbortedWithError' ]_vars

C4_Witness ==
    /\ pc = "done"
    /\ extraction = "raised"
    /\ response.status = 500
    /\ Len(trace) = 2

\* C5: the title list is the model's text split on line breaks, each line
\* trimmed, empty lines and sentinel lines removed, in order; re-splitting the
\* newline-joined titles gives the same titles; an empty or sentinel-only text
\* gives no title and the response {"movies": []}.
C5_TitlesAreTrimmedLines ==
    [][ ( /\ pc = "vision_got"
          /\ vision_reply.net = "ok"
          /\ vision_reply.status < 400
          /\ ~ VisionReadFails(vision_reply) )
        => LET text == TextOfReply(vision_reply) IN
           /\ extraction' = "ok"
           /\ movie_titles' = ExpectedTitles(text)
           /\ TitlesOfText(PyJoinNewline(movie_titles')) = movie_titles'
           /\ text \in { << >>, << "No movie titles detected" >> }
                => movie_titles' = << >>
           /\ movie_titles' = << >>
                => /\ pc' = "done"
                   /\ response'.status = 200
                   /\ response'.keys = { "movies" }
                   /\ response'.movies = << >> ]_vars

C5_Witness ==
    /\ pc = "omdb_wait"
    /\ extraction = "ok"
    /\ Len(movie_titles) = 2
    /\ movie_titles[1] # movie_titles[2]

\* C6 as written: when the movie-database call fails (network error or
\* non-2xx status) the record is {title: the input title, rating: "Error",
\* poster: "N/A", year: "N/A", plot: a text embedding the failure}.
C6_AnyNon2xxIsErrorRecord ==
    ( /\ fetch_pc = "returned"
      /\ \/ fetch_reply.net = "error"
         \/ fetch_reply.status < 200
         \/ fetch_reply.status > 299 )
        => /\ fetch_result.exc = "none"
           /\ fetch_result.value.title = fetch_title
           /\ fetch_result.value.rating = << "Error" >>
           /\ fetch_result.value.poster = << "N/A" >>
           /\ fetch_result.value.year = << "N/A" >>
           /\ PySubstring(RequestErrorText(fetch_reply), fetch_result.value.plot)

\* C6 amended: the same, the failing statuses being 4xx and 5xx.
C6_FailedCallIsErrorRecord ==
    ( /\ fetch_pc = "returned"
      /\ \/ fetch_reply.net = "error"
         \/ fetch_reply.status >= 400 )
        => /\ fetch_result.exc = "none"
           /\ fetch_result.value.title = fetch_title
           /\ fetch_result.value.rating = << "Error" >>
           /\ fetch_result.value.poster = << "N/A" >>
           /\ fetch_result.value.year = << "N/A" >>
           /\ PySubstring(RequestErrorText(fetch_reply), fetch_result.value.plot)

C6_Witness ==
    /\ fetch_pc = "returned"
    /\ fetch_reply.net = "ok"
    /\ fetch_reply.status = 500
    /\ fetch_result.value.rating = << "Error" >>

\* C7 as written: for a found response each of title, rating, poster, year
\* and plot is the payload's Title, imdbRating, Poster, Year, Plot, or "N/A"
\* where the payload lacks the field.
C7_FoundFieldsOrNA ==
    (fetch_pc = "returned" /\ OmdbFound(fetch_reply))
        => /\ fetch_result.exc = "none"
           /\ fetch_result.value.title = OrNA(fetch_reply, "Title")
           /\ fetch_result.value.rating = OrNA(fetch_reply, "imdbRating")
           /\ fetch_result.value.poster = OrNA(fetch_reply, "Poster")
           /\ fetch_result.value.year = OrNA(fetch_reply, "Year")
           /\ fetch_result.value.plot = OrNA(fetch_reply, "Plot")

\* C7 amended: rating, poster, year and plot are the payload's field or "N/A"
\* where it is absent; title is the payload's Title, or the input title where
\* Title is absent.
C7_FoundFieldsVerbatim ==
    (fetch_pc = "returned" /\ OmdbFound(fetch_reply))
        => /\ fetch_result.exc = "none"
           /\ fetch_result.value.title =
                IF "Title" \in fetch_reply.keys
                THEN fetch_reply.val["Title"] ELSE fetch_title
           /\ fetch_result.value.rating = OrNA(fetch_reply, "imdbRating")
           /\ fetch_result.value.poster = OrNA(fetch_reply, "Poster")
           /\ fetch_result.value.year = OrNA(fetch_reply, "Year")
           /\ fetch_result.value.plot = OrNA(fetch_reply, "Plot")

C7_Witness ==
    /\ fetch_pc = "returned"
    /\ OmdbFound(fetch_reply)
    /\ "Poster" \notin fetch_reply.keys
    /\ fetch_result.value.rating = << "8.8" >>
    /\ fetch_result.value.poster = << "N/A" >>

\* C8: a found payload without Title gives a record whose title is the input
\* title; a payload whose Response is not the string "True", or is absent,
\* gives exactly {title: input title, rating: "N/A", poster: "N/A", year:
\* "N/A", plot: "Movie information not found"}; the title is never missing.
C8_TitleFallsBackToInput ==
    (fetch_pc = "returned" /\ OmdbAnswered(fetch_reply))
        => /\ fetch_result.exc = "none"
           /\ fetch_result.value.title # << >>
           /\ (OmdbFound(fetch_reply) /\ "Title" \notin fetch_reply.keys)
                => fetch_result.value.title = fetch_title
           /\ ("Response" \notin fetch_reply.keys
                 \/ fetch_reply.val["Response"] # << "True" >>)
                => fetch_result.value =
                     [ title |-> fetch_title, rating |-> << "N/A" >>,
                       poster |-> << "N/A" >>, year |-> << "N/A" >>,
                       plot |-> << "Movie information not found" >> ]

C8_Witness ==
    /\ fetch_pc = "returned"
    /\ OmdbAnswered(fetch_reply)
    /\ "Response" \in fetch_reply.keys
    /\ fetch_reply.val["Response"] = << "true" >>
    /\ "Title" \in fetch_reply.keys
    /\ fetch_result.value.title = fetch_title

\* C9 as written: a POST /health request is always answered 200 with
\* {"status": "healthy"}.
C9_PostHealthIs200 ==
    (pc = "done" /\ request.method = "POST" /\ request.path = "/health")
        => /\ response.status = 200
           /\ response.keys = { "status" }
           /\ response.health = << "healthy" >>

\* C9 amended: a GET /health request is always answered 200 with
\* {"status": "healthy"}, whatever the body and without any outbound call.
C9_GetHealthIs200 ==
    (pc = "done" /\ request.method = "GET" /\ request.path = "/health")
        => /\ response.status = 200
           /\ response.by = "app"
           /\ response.keys = { "status" }
           /\ response.health = << "healthy" >>
           /\ trace = << >>

C9_Witness ==
    /\ pc = "done"
    /\ request.method = "GET"
    /\ request.path = "/health"
    /\ request.body.t = "malformed"
    /\ response.status = 200

\* the outbound calls of a request, in the order the code issues them:
\* none before validation passes, one vision call, then call and return of
\* lookup 1, of lookup 2, ..., each for the title at its position
CallOrder ==
    /\ pc \in { "idle", "received" } => trace = << >>
    /\ trace # << >>
         => /\ IsExtractRequest
            /\ HasImageField(request.body)
            /\ trace[1] = Call("vision", 0, request.body.image)
    /\ Cardinality(VisionCalls) <= 1
    /\ OmdbCalls # {} => extraction = "ok"
    /\ \A i \in 1..Len(trace) :
         /\ i % 2 = 1 => trace[i].ev = "call"
         /\ i % 2 = 0 => trace[i] = Return(trace[i - 1].api, trace[i - 1].pos,
                                           trace[i - 1].title)
         /\ i > 2 => /\ trace[i].api = "omdb"
                     /\ trace[i].pos = (i - 1) \div 2
                     /\ trace[i].pos <= Len(movie_titles)
                     /\ trace[i].title = movie_titles[trace[i].pos]

\* C10: within one request no outbound call precedes validation, exactly one
\* vision call is made, the lookups start after it returned successfully and
\* run one at a time in title order, and each title position is looked up
\* exactly once.
C10_CallsInOrderOncePerTitle ==
    /\ CallOrder
    /\ (pc = "done" /\ trace # << >>) => Cardinality(VisionCalls) = 1
    /\ (pc = "done" /\ extraction = "ok")
         => \A p \in 1..Len(movie_titles) :
              Cardinality({ i \in OmdbCalls : trace[i].pos = p }) = 1

====
